---- MODULE Spec2Model ----
(***************************************************************************)
(* Connector health-check aggregator of the team portal                    *)
(* (team-portal/app/api/status/route.js).                                  *)
(*                                                                         *)
(* GET walks the imported connector list, awaits fetchWithTimeout for one  *)
(* connector at a time and appends one item per connector.  Several GET    *)
(* requests may be in progress at once; they interleave at the await.      *)
(*                                                                         *)
(* Time is a wall clock that advances in steps of TickMs.  The endpoint    *)
(* behaviour of every probe is fixed in env (the two requests see the same *)
(* endpoints, except that one endpoint may behave differently for the      *)
(* second request): an endpoint that answers                               *)
(* (kind "response") or fails at network level (kind "neterr") does so     *)
(* strictly before the deadline of the probe, an endpoint of kind "hang"   *)
(* does not answer within the timeout: its answer would arrive only after  *)
(* the deadline.  A callback that is due runs before the clock advances,   *)
(* and the clock does not step over a pending deadline.                    *)
(***************************************************************************)
EXTENDS Integers, Sequences, FiniteSets, TLC

VARIABLES connectors, env, now, pc, idx, items, start, timers, aborted,
          report, raised, open, began

vars == <<connectors, env, now, pc, idx, items, start, timers, aborted,
          report, raised, open, began>>

----------------------------------------------------------------------------
(* Bounds and constants *)

MaxN == 2

TickMs == 2000

TimeoutMs == 4000

Cycles == {1, 2}

Statuses == {200, 304, 500}

Null == <<>>

Some(v) == <<v>>

(* data/connectors.json: an ordered list of connectors with unique ids.    *)
Catalog ==
  << [id |-> "alpha", name |-> "Alpha", url |-> <<"a", "/">>],
     [id |-> "beta",  name |-> "Beta",  url |-> <<"b">>],
     [id |-> "gamma", name |-> "Gamma", url |-> <<"c", "/">>],
     [id |-> "delta", name |-> "Delta", url |-> <<"d">>] >>

Registries == {SubSeq(Catalog, 1, n) : n \in 0..MaxN}

(* What the endpoint of a probe does: it answers with a status, the        *)
(* request fails at network level, or the answer (a 200) comes too late.   *)
Outcomes ==
  {[kind |-> "response", status |-> s] : s \in Statuses}
    \cup {[kind |-> "neterr", status |-> 0], [kind |-> "hang", status |-> 200]}

(* an order on the outcomes, to tell two interchangeable requests apart    *)
OutcomeRank(o) ==
  IF o.kind = "response" THEN o.status ELSE IF o.kind = "neterr" THEN 0 ELSE 1

(* Endpoint behaviour per request and connector; the requests differ in    *)
(* the behaviour of at most one endpoint.  The requests are                *)
(* interchangeable, so of two that differ the one with the lower-ranked    *)
(* outcome is taken to be the lower-numbered request.                      *)
Environments(n) ==
  {e \in [Cycles -> [1..n -> Outcomes]] :
     \A c, d \in Cycles :
       /\ \A i, j \in 1..n : e[c][i] # e[d][i] /\ e[c][j] # e[d][j] => i = j
       /\ \A i \in 1..n :
            (c < d /\ e[c][i] # e[d][i]) =>
              OutcomeRank(e[c][i]) < OutcomeRank(e[d][i])}

----------------------------------------------------------------------------
(* Pure helpers *)

ResOkWithRedirects(status) == status >= 200 /\ status =< 399

(* Response.ok of the fetch API: the status is in the range 200-299        *)
ResOk(status) == status >= 200 /\ status =< 299

FetchReturnNullOnFailure(status, t0, t1) ==
  [threw |-> FALSE, ok |-> ResOk(status),
   status_code |-> IF ResOk(status) THEN Some(status) ELSE Null,
   latency_ms |-> IF ResOk(status) THEN Some(t1 - t0) ELSE Null]

(* the value fetchWithTimeout returns when fetch resolves                  *)
FetchReturn(status, t0, t1) ==
  [threw |-> FALSE, ok |-> ResOk(status), status_code |-> Some(status),
   latency_ms |-> Some(t1 - t0)]

(* fetchWithTimeout when fetch rejects: try/finally has no catch           *)
FetchThrow ==
  [threw |-> TRUE, ok |-> FALSE, status_code |-> Null, latency_ms |-> Null]

SuccessItem(connector, result, t) ==
  [id |-> connector.id, name |-> connector.name, url |-> connector.url,
   ok |-> result.ok, status_code |-> result.status_code,
   latency_ms |-> result.latency_ms, checked_at |-> t]

FailureItemWithLatency(connector, t) ==
  [id |-> connector.id, name |-> connector.name, url |-> connector.url,
   ok |-> FALSE, status_code |-> Null, latency_ms |-> Some(0), checked_at |-> t]

FailureItem(connector, t) ==
  [id |-> connector.id, name |-> connector.name, url |-> connector.url,
   ok |-> FALSE, status_code |-> Null, latency_ms |-> Null, checked_at |-> t]

TryNoCatch(connector, result, t) ==
  IF result.threw
    THEN [raised |-> TRUE, item |-> FailureItem(connector, t)]
    ELSE [raised |-> FALSE, item |-> SuccessItem(connector, result, t)]

(* try { ... } catch (err) { ... } around the awaited probe                *)
TryCatch(connector, result, t) ==
  IF result.threw
    THEN [raised |-> FALSE, item |-> FailureItem(connector, t)]
    ELSE [raised |-> FALSE, item |-> SuccessItem(connector, result, t)]

PushOnlyOk(its, c, item) ==
  IF item.ok THEN [its EXCEPT ![c] = Append(@, item)] ELSE its

Unshift(its, c, item) == [its EXCEPT ![c] = <<item>> \o @]

PushShared(its, c, item) == [k \in Cycles |-> Append(its[k], item)]

(* items.push(item) on the array of the cycle                              *)
Push(its, c, item) == [its EXCEPT ![c] = Append(@, item)]

SignalAbortedShared(ab, c, i) == \E k \in 1..i : <<c, k>> \in ab

SignalNotPassed(ab, c, i) == FALSE

(* controller.signal.aborted of the controller of probe i of cycle c       *)
SignalAborted(ab, c, i) == <<c, i>> \in ab

(* clearTimeout(timeout) of probe i of cycle c                             *)
ClearTimeout(tms, c, i) == {t \in tms : ~(t.c = c /\ t.i = i)}

InFlight(c) == pc[c] = "fetch"

(* The open requests and responses once the fetch of probe i of cycle c    *)
(* has settled: a rejected fetch has closed its request; a resolved fetch  *)
(* leaves a response whose body fetchWithTimeout neither reads nor         *)
(* cancels before it returns.                                              *)
AfterFetch(op, c, i, result) ==
  IF result.threw THEN op \ {<<c, i>>} ELSE op

LaunchedAll(i) == i..Len(connectors)

(* the probes iteration i of the loop starts before it suspends: the loop  *)
(* awaits fetchWithTimeout of connector i                                  *)
Launched(i) == {i}

DeadlineInSeconds(t) == t + TimeoutMs * 1000

(* setTimeout(() => controller.abort(), timeoutMs) armed at time t         *)
Deadline(t) == t + TimeoutMs

(* the response of the awaited fetch has arrived                           *)
ResponseArrived(c) ==
  \/ env[c][idx[c]].kind = "response"
  \/ env[c][idx[c]].kind = "hang" /\ now - start[c] > TimeoutMs

(* the next instant of the clock: one tick later, or the earliest pending  *)
(* deadline when that comes first                                          *)
NextInstant ==
  LET ds == {t.deadline : t \in timers} \cup {now + TickMs}
  IN  CHOOSE d \in ds : \A e \in ds : d =< e

----------------------------------------------------------------------------
Init ==
  /\ connectors \in Registries
  /\ env \in Environments(Len(connectors))
  /\ now = 0
  /\ pc = [c \in Cycles |-> "idle"]
  /\ idx = [c \in Cycles |-> 0]
  /\ items = [c \in Cycles |-> <<>>]
  /\ start = [c \in Cycles |-> 0]
  /\ timers = {}
  /\ aborted = {}
  /\ report = [c \in Cycles |-> Null]
  /\ raised = [c \in Cycles |-> FALSE]
  /\ open = {}
  /\ began = [c \in Cycles |-> 0]

(* The loop of GET from the top of iteration i: either call                *)
(* fetchWithTimeout for connector i and suspend at await fetch, or leave   *)
(* the loop and return Response.json({ items }).                           *)
LoopFrom(c, i, its, tms, op) ==
  /\ items' = its
  /\ open' = IF i =< Len(connectors)
               THEN op \cup {<<c, k>> : k \in Launched(i)}
               ELSE op
  /\ IF i =< Len(connectors)
       THEN /\ pc' = [pc EXCEPT ![c] = "fetch"]
            /\ idx' = [idx EXCEPT ![c] = i]
            /\ start' = [start EXCEPT ![c] = now]
            /\ timers' = tms \cup {[c |-> c, i |-> k, deadline |-> Deadline(now)] :
                                      k \in Launched(i)}
            /\ report' = report
       ELSE /\ pc' = [pc EXCEPT ![c] = "done"]
            /\ idx' = idx
            /\ start' = start
            /\ timers' = tms
            /\ report' = [report EXCEPT ![c] = Some([items |-> its[c]])]

(* What GET does with the settled probe of connector idx[c].               *)
Settle(c, result) ==
  LET r == TryCatch(connectors[idx[c]], result, now)
      tms == ClearTimeout(timers, c, idx[c])
      op == AfterFetch(open, c, idx[c], result)
  IN  IF r.raised
        THEN /\ pc' = [pc EXCEPT ![c] = "done"]
             /\ raised' = [raised EXCEPT ![c] = TRUE]
             /\ timers' = tms
             /\ open' = op
             /\ UNCHANGED <<idx, items, start, report>>
        ELSE /\ raised' = raised
             /\ LoopFrom(c, idx[c] + 1, Push(items, c, r.item), tms, op)

(* A request arrives: GET runs up to its first await.                      *)
GET(c) ==
  /\ pc[c] = "idle"
  /\ LoopFrom(c, 1, [items EXCEPT ![c] = <<>>], timers, open)
  /\ began' = [began EXCEPT ![c] = now]
  /\ UNCHANGED <<connectors, env, now, aborted, raised>>

(* fetch resolves with a response: the rest of fetchWithTimeout and of the *)
(* iteration run, up to the next await.                                    *)
FetchResolved(c) ==
  /\ InFlight(c)
  /\ ResponseArrived(c)
  /\ ~SignalAborted(aborted, c, idx[c])
  /\ Settle(c, FetchReturn(env[c][idx[c]].status, start[c], now))
  /\ UNCHANGED <<connectors, env, now, aborted, began>>

(* fetch rejects: network failure, or the signal was aborted.              *)
FetchRejected(c) ==
  /\ InFlight(c)
  /\ \/ env[c][idx[c]].kind = "neterr"
     \/ SignalAborted(aborted, c, idx[c])
  /\ Settle(c, FetchThrow)
  /\ UNCHANGED <<connectors, env, now, aborted, began>>

(* the setTimeout callback: () => controller.abort(); the abort cancels    *)
(* the request of its fetch                                                *)
TimeoutCallback(c) ==
  /\ \E t \in timers :
       /\ t.c = c
       /\ now >= t.deadline
       /\ timers' = timers \ {t}
       /\ aborted' = aborted \cup {<<t.c, t.i>>}
       /\ open' = open \ {<<t.c, t.i>>}
  /\ UNCHANGED <<connectors, env, now, pc, idx, items, start, report, raised,
                 began>>

(* The clock advances while a deadline is pending and nothing is due.      *)
Tick ==
  /\ timers # {}
  /\ \A t \in timers : now < t.deadline
  /\ \A c \in Cycles :
       InFlight(c) =>
         /\ ~SignalAborted(aborted, c, idx[c])
         /\ env[c][idx[c]].kind # "hang" => now + TickMs - start[c] < TimeoutMs
  /\ now' = NextInstant
  /\ UNCHANGED <<connectors, env, pc, idx, items, start, timers, aborted,
                 report, raised, open, began>>

Next ==
  \/ \E c \in Cycles : GET(c)
  \/ \E c \in Cycles : FetchResolved(c)
  \/ \E c \in Cycles : FetchRejected(c)
  \/ \E c \in Cycles : TimeoutCallback(c)
  \/ Tick

Spec == Init /\ [][Next]_vars

(* Both requests see the same endpoint behaviour.                          *)
InitSameEndpoints == Init /\ \A c, d \in Cycles : env[c] = env[d]

(* Callbacks that are due run, pending settlements are delivered and the   *)
(* clock advances; nothing forces a request to arrive.                     *)
FairSpec ==
  /\ InitSameEndpoints
  /\ [][Next]_vars
  /\ \A c \in Cycles : WF_vars(FetchResolved(c))
  /\ \A c \in Cycles : WF_vars(FetchRejected(c))
  /\ \A c \in Cycles : WF_vars(TimeoutCallback(c))
  /\ WF_vars(Tick)

----------------------------------------------------------------------------
Done(c) == pc[c] = "done"

(* the items of the report returned by cycle c                             *)
ReportItems(c) == report[c][1].items

Reported(c) == Done(c) /\ report[c] # Null

TypeOK ==
  /\ connectors \in Registries
  /\ pc \in [Cycles -> {"idle", "fetch", "done"}]
  /\ \A c \in Cycles : Len(items[c]) =< Len(connectors)

----------------------------------------------------------------------------
(* C1: whatever the probes' outcomes, a finished aggregation cycle has     *)
(* returned, without an error, a report with exactly as many items as the  *)
(* registry has connectors (an empty list for an empty registry).          *)
C1_ItemsLength ==
  \A c \in Cycles :
    Done(c) =>
      /\ ~raised[c]
      /\ report[c] # Null
      /\ Len(ReportItems(c)) = Len(connectors)
      /\ Len(connectors) = 0 => ReportItems(c) = <<>>

(* a finished cycle over two or more connectors, one probe of which timed  *)
(* out and another failed at network level                                 *)
C1_Witness ==
  \E c \in Cycles :
    /\ Reported(c)
    /\ Len(connectors) >= 2
    /\ \E i, j \in 1..Len(connectors) :
         env[c][i].kind = "hang" /\ env[c][j].kind = "neterr"

(* C2: in a returned report the item at position i carries the id of the   *)
(* connector at position i of the registry.                                *)
C2_RegistryOrder ==
  \A c \in Cycles :
    Reported(c) =>
      \A i \in 1..Len(ReportItems(c)) :
        i =< Len(connectors) /\ ReportItems(c)[i].id = connectors[i].id

(* a report over two connectors whose first connector is the slowest (it   *)
(* ran into the timeout) while the second one answered                     *)
C2_Witness ==
  \E c \in Cycles :
    /\ Reported(c)
    /\ Len(ReportItems(c)) >= 2
    /\ env[c][1].kind = "hang"
    /\ env[c][2].kind = "response"

(* C3 as stated: ok implies a successful status and latency_ms >= 0; not   *)
(* ok implies status_code and latency_ms are both null.                    *)
C3_Original ==
  \A c \in Cycles :
    \A i \in 1..Len(items[c]) :
      LET it == items[c][i] IN
        /\ it.ok =>
             /\ it.status_code # Null /\ it.latency_ms # Null
             /\ it.status_code[1] \in 200..399
             /\ it.latency_ms[1] >= 0
        /\ ~it.ok => it.status_code = Null /\ it.latency_ms = Null

(* C3 amended: ok implies a status in 200..299 and latency_ms >= 0; not    *)
(* ok implies either status_code and latency_ms both null (no response     *)
(* was received) or a received status outside 200..299 together with its   *)
(* latency_ms >= 0.                                                        *)
C3_Amended ==
  \A c \in Cycles :
    \A i \in 1..Len(items[c]) :
      LET it == items[c][i] IN
        /\ it.ok =>
             /\ it.status_code # Null /\ it.latency_ms # Null
             /\ it.status_code[1] \in 200..299
             /\ it.latency_ms[1] >= 0
        /\ ~it.ok =>
             \/ it.status_code = Null /\ it.latency_ms = Null
             \/ /\ it.status_code # Null /\ it.latency_ms # Null
                /\ it.status_code[1] \notin 200..299
                /\ it.latency_ms[1] >= 0

(* a cycle holding an item of each shape: ok, failed without response and  *)
(* failed with a received status                                           *)
C3_Witness ==
  \E c \in Cycles :
    /\ \E i \in 1..Len(items[c]) :
         ~items[c][i].ok /\ items[c][i].status_code # Null
    /\ \E i \in 1..Len(items[c]) :
         ~items[c][i].ok /\ items[c][i].status_code = Null

(* C4 as stated: a probe whose response was received is reported ok        *)
(* exactly when the received status is in 200..399, with that status.      *)
C4_Original ==
  \A c \in Cycles :
    \A i \in 1..Len(items[c]) :
      env[c][i].kind = "response" =>
        /\ items[c][i].status_code = Some(env[c][i].status)
        /\ items[c][i].ok <=> env[c][i].status \in 200..399

(* C4 amended: a probe whose response was received is reported ok exactly  *)
(* when the received status is in 200..299, and status_code is the         *)
(* received status; a received 3xx status gives ok = false.                *)
C4_Amended ==
  \A c \in Cycles :
    \A i \in 1..Len(items[c]) :
      env[c][i].kind = "response" =>
        /\ items[c][i].status_code = Some(env[c][i].status)
        /\ items[c][i].ok <=> env[c][i].status \in 200..299

(* a cycle that received a 3xx response and a 2xx response                 *)
C4_Witness ==
  \E c \in Cycles :
    /\ \E i \in 1..Len(items[c]) :
         env[c][i].kind = "response" /\ env[c][i].status \in 300..399
    /\ \E i \in 1..Len(items[c]) :
         env[c][i].kind = "response" /\ env[c][i].status \in 200..299

(* positions a registry can have                                           *)
Positions == 1..Len(Catalog)

(* the item a probe without a response is reported with                    *)
IsFailedWithoutResponse(it) ==
  ~it.ok /\ it.status_code = Null /\ it.latency_ms = Null

(* C5: a probe whose endpoint never responds concludes: it is reported     *)
(* with ok = false, status_code = null, latency_ms = null, and the cycle   *)
(* runs to completion.                                                     *)
C5_TimeoutConcludes ==
  \A c \in Cycles : \A i \in Positions :
    (InFlight(c) /\ idx[c] = i /\ env[c][i].kind = "hang")
      ~> (/\ Reported(c)
          /\ Len(ReportItems(c)) >= i
          /\ IsFailedWithoutResponse(ReportItems(c)[i]))

(* a finished cycle one of whose probes ran into the timeout: its abort    *)
(* callback has run                                                        *)
C5_Witness ==
  \E c \in Cycles :
    /\ Reported(c)
    /\ \E i \in 1..Len(connectors) :
         env[c][i].kind = "hang" /\ <<c, i>> \in aborted

(* the connector conditions that are failures: timeout, network failure,   *)
(* a status of 400 or more                                                 *)
IsFailure(o) ==
  o.kind \in {"hang", "neterr"} \/ (o.kind = "response" /\ o.status >= 400)

(* C6: no cycle ever raises an error to the caller of GET; every settled   *)
(* probe has left an item, and the item of a connector that timed out,     *)
(* failed at network level or answered a failing status has ok = false.    *)
C6_FailuresAreItems ==
  \A c \in Cycles :
    /\ ~raised[c]
    /\ InFlight(c) => Len(items[c]) = idx[c] - 1
    /\ Done(c) => Len(items[c]) = Len(connectors)
    /\ \A i \in 1..Len(items[c]) : IsFailure(env[c][i]) => ~items[c][i].ok

(* a cycle that went on to the next connector after an unreachable host    *)
C6_Witness ==
  \E c \in Cycles :
    /\ Len(items[c]) >= 2
    /\ env[c][1].kind = "neterr"
    /\ ~items[c][1].ok

(* C7: a received failing status is reported with ok = false and the       *)
(* received status as status_code; a network-level failure or a timeout    *)
(* is reported with status_code = null.                                    *)
C7_FailingStatusKept ==
  \A c \in Cycles :
    \A i \in 1..Len(items[c]) :
      /\ (env[c][i].kind = "response" /\ env[c][i].status \notin 200..399) =>
           ~items[c][i].ok /\ items[c][i].status_code = Some(env[c][i].status)
      /\ env[c][i].kind \in {"neterr", "hang"} =>
           ~items[c][i].ok /\ items[c][i].status_code = Null

(* a cycle holding the item of a received failing status and the item of   *)
(* a network-level failure                                                 *)
C7_Witness ==
  \E c \in Cycles :
    \E i, j \in 1..Len(items[c]) :
      /\ env[c][i].kind = "response" /\ env[c][i].status >= 400
      /\ env[c][j].kind = "neterr"

(* the part of an entry that probe isolation is about                      *)
Entry(it) == <<it.id, it.ok, it.status_code>>

(* C8: when two finished cycles differ only in the behaviour of the        *)
(* endpoint of connector j, the entries of every other connector have the  *)
(* same id, ok and status_code in both reports.                            *)
C8_ProbeIsolation ==
  \A c, d \in Cycles :
    (Reported(c) /\ Reported(d)) =>
      \A j \in 1..Len(connectors) :
        (\A i \in 1..Len(connectors) : i # j => env[c][i] = env[d][i]) =>
          /\ Len(ReportItems(c)) = Len(ReportItems(d))
          /\ \A i \in 1..Len(ReportItems(c)) :
               i # j => Entry(ReportItems(c)[i]) = Entry(ReportItems(d)[i])

(* two finished cycles over two or more connectors: the first connector    *)
(* timed out in one cycle and answered in the other                        *)
C8_Witness ==
  \E c, d \in Cycles :
    /\ Reported(c) /\ Reported(d)
    /\ Len(connectors) >= 2
    /\ env[c][1].kind = "hang"
    /\ env[d][1].kind = "response"
    /\ <<c, 1>> \in aborted

(* the request of probe k of cycle c has been issued: its deadline is      *)
(* pending, or its controller was aborted, or its item is there            *)
Issued(c, k) ==
  \/ \E t \in timers : t.c = c /\ t.i = k
  \/ <<c, k>> \in aborted
  \/ Len(items[c]) >= k

(* C9: probes run concurrently: while the probe of connector i awaits its  *)
(* response, the request of the probe of connector i+1 has already been    *)
(* issued.                                                                 *)
C9_ConcurrentProbes ==
  \A c \in Cycles :
    (InFlight(c) /\ idx[c] < Len(connectors)) => Issued(c, idx[c] + 1)

(* the result the probe of connector i of cycle c gives, from what its     *)
(* own endpoint did                                                        *)
IsOwnResult(c, i, it) ==
  /\ it.id = connectors[i].id
  /\ it.status_code =
       IF env[c][i].kind = "response" THEN Some(env[c][i].status) ELSE Null
  /\ it.latency_ms = Null <=> env[c][i].kind # "response"

(* a cycle's items array holds the results of the probes it has settled    *)
OwnItems(c) ==
  /\ pc[c] = "idle" => items[c] = <<>>
  /\ InFlight(c) => Len(items[c]) = idx[c] - 1
  /\ Done(c) =>
       /\ report[c] # Null
       /\ ReportItems(c) = items[c]
       /\ Len(items[c]) = Len(connectors)
  /\ \A i \in 1..Len(items[c]) :
       i =< Len(connectors) /\ IsOwnResult(c, i, items[c][i])

(* C10: concurrently running cycles share no mutable state: each holds and *)
(* returns the results of its own probes only, N items in registry order,  *)
(* and no step changes the registry.                                       *)
C10_IndependentCycles ==
  /\ [](\A c \in Cycles : OwnItems(c))
  /\ [][connectors' = connectors]_vars

(* both cycles were awaiting a probe at the same time, and both have       *)
(* returned reports that differ in the entry of one connector              *)
C10_Witness ==
  /\ \A c \in Cycles : Reported(c) /\ Len(ReportItems(c)) >= 2
  /\ \E c, d \in Cycles :
       /\ c # d
       /\ env[c] # env[d]
       /\ \E i \in 1..Len(items[c]) :
            items[c][i].checked_at > items[d][1].checked_at
       /\ \E i \in 1..Len(items[d]) :
            items[d][i].checked_at > items[c][1].checked_at

(* C11: a probe that receives HTTP 200 within the timeout is reported with *)
(* ok = true, status_code = 200 and 0 <= latency_ms <= timeout_ms; the     *)
(* latency is the clock difference between the start of the request and    *)
(* the handling of the response.                                           *)
C11_LatencyWithinTimeout ==
  /\ [](\A c \in Cycles :
          \A i \in 1..Len(items[c]) :
            LET it == items[c][i] IN
              /\ (env[c][i].kind = "response" /\ env[c][i].status = 200) =>
                   it.status_code = Some(200)
              /\ it.status_code = Some(200) =>
                   /\ it.ok
                   /\ it.latency_ms # Null
                   /\ it.latency_ms[1] >= 0
                   /\ it.latency_ms[1] =< TimeoutMs)
  /\ [][\A c \in Cycles :
          (/\ Len(items'[c]) = Len(items[c]) + 1
           /\ items'[c][Len(items'[c])].latency_ms # Null) =>
            items'[c][Len(items'[c])].latency_ms = Some(now - start[c])]_vars

(* a cycle that reported a 200 received some time after the request was    *)
(* issued, and a probe whose 200 would have come after the deadline        *)
C11_Witness ==
  \E c \in Cycles :
    \E i, j \in 1..Len(items[c]) :
      /\ items[c][i].status_code = Some(200)
      /\ items[c][i].latency_ms[1] > 0
      /\ env[c][j].kind = "hang"
      /\ items[c][j].status_code = Null

(* the probes of cycle c that are in flight: issued and not yet concluded  *)
InFlightProbes(c) ==
  {k \in 1..Len(connectors) : Issued(c, k) /\ Len(items[c]) < k}

(* C12: the number of probes of a cycle in flight never exceeds the        *)
(* concurrency bound (the loop keeps one probe in flight, the least value  *)
(* max_concurrency can have), and a probe begins only when the probes that *)
(* were in flight have finished.                                           *)
C12_BoundedInFlight ==
  /\ [](\A c \in Cycles : Cardinality(InFlightProbes(c)) =< 1)
  /\ [][\A c \in Cycles :
          \A k \in InFlightProbes(c)' \ InFlightProbes(c) :
            \A j \in InFlightProbes(c) : Len(items'[c]) >= j]_vars

(* a registry of more than one connector: the second probe is in flight,   *)
(* the first one has finished                                              *)
C12_Witness ==
  \E c \in Cycles :
    /\ Len(connectors) >= 2
    /\ InFlightProbes(c) = {2}
    /\ Len(items[c]) = 1

(* C13: when the timeout expires the request is aborted, and once a probe  *)
(* has returned or thrown it has no pending deadline timer and no open     *)
(* request or response.                                                    *)
C13_ResourcesReleased ==
  \A c \in Cycles :
    /\ \A i \in 1..Len(connectors) : <<c, i>> \in aborted => <<c, i>> \notin open
    /\ \A i \in 1..Len(items[c]) :
         /\ ~\E t \in timers : t.c = c /\ t.i = i
         /\ <<c, i>> \notin open

(* the wall time a finished cycle took: from the arrival of the request    *)
(* to the conclusion of its last probe                                     *)
Duration(c) ==
  IF Len(items[c]) = 0 THEN 0 ELSE items[c][Len(items[c])].checked_at - began[c]

CeilDiv(n, k) == (n + k - 1) \div k

(* the values max_concurrency can be set to                                *)
Concurrencies == 1..Len(Catalog)

(* C14: a cycle is complete when each of its N probes has concluded, and   *)
(* for every max_concurrency it has then taken at most                     *)
(* ceil(N / max_concurrency) x per_probe_timeout.                          *)
C14_WorstCaseDuration ==
  \A c \in Cycles :
    Done(c) =>
      /\ Len(items[c]) = Len(connectors)
      /\ \A k \in Concurrencies :
           Duration(c) =< CeilDiv(Len(connectors), k) * TimeoutMs
====
